---- MODULE Spec2Model ----
(***************************************************************************)
(* CreatorCover: the App component (src/components/CoverCanvas.tsx, from   *)
(* line 85) and the Gemini adapter (src/services/geminiService.ts).        *)
(*                                                                         *)
(* One action is one task of the browser's event loop: a user event, or    *)
(* the arrival of a remote answer together with the synchronous            *)
(* continuation (microtasks) that the answer resumes.                      *)
(***************************************************************************)
EXTENDS Integers, Sequences, FiniteSets, TLC

\* ------------------------------------------------------------------ bounds

\* status polls of one video attempt
MaxPolls == 2
\* html2canvas captures in flight at a time
MaxExports == 1
\* ceiling of the per-request attempt counters (history only)
MaxCount == 3

\* ------------------------------------------------------------- the domain

\* [1, 2, 3].map(...) in generateCoverImages
Requests == {1, 2, 3}

\* null and undefined
Null == "<null>"

\* values a user types into a text field
Typed == {"", "u"}
\* the first entries of the two select fields (their lists live in types.ts)
CATEGORIES == <<"Business">>
MARKETPLACES == <<"IT">>
\* the (field, value) pairs that typed input is drawn from
TypedInputs == {<<"topic", "u">>, <<"topic", "">>, <<"author", "u">>, <<"author", "">>,
                <<"title", "u">>}

\* inlineData.data of the image drawn for each of the three requests: images
\* are opaque, and told apart by the request that produced them
ImageData == <<"A", "B", "C">>

\* errors: the words of error.message, and error.status (0: none)
Err403Message == [message |-> <<"got", "403", "Forbidden">>, status |-> 0]
Err403Status == [message |-> <<"Forbidden">>, status |-> 403]
ErrPermissionDenied == [message |-> <<"PERMISSION_DENIED">>, status |-> 0]
Err500 == [message |-> <<"Internal", "error">>, status |-> 500]
ErrNoImage == [message |-> <<"No", "image", "generated", "in", "this", "attempt">>, status |-> 0]
ErrNoUri == [message |-> <<"Video", "generation", "failed", "to", "return", "URI">>, status |-> 0]
ErrFetch == [message |-> <<"Video", "fetch", "failed:", "Not", "Found">>, status |-> 0]
RemoteErrors == {Err403Message, Err403Status, ErrPermissionDenied, Err500}

includes(message, word) == \E i \in 1..Len(message) : message[i] = word

\* the test of the two catch blocks (without the retry flag)
IsPermissionDenied(error) ==
  \/ includes(error.message, "403")
  \/ error.status = 403
  \/ includes(error.message, "PERMISSION_DENIED")

\* ------------------------------------------------------------------- JSON

\* JSON.parse on the texts the remote model is taken to answer with:
\* ok = FALSE is a SyntaxError; a value is an object (its keys and values)
\* or null
JSONParse(text) ==
  CASE text = "{}" -> [ok |-> TRUE, object |-> TRUE, value |-> <<>>]
    [] text = "null" -> [ok |-> TRUE, object |-> FALSE, value |-> <<>>]
    [] text = "{title,subtitle,description}" ->
         [ok |-> TRUE, object |-> TRUE,
          value |-> [title |-> "T", subtitle |-> "S", description |-> "D"]]
    [] text = "{title,author}" ->
         [ok |-> TRUE, object |-> TRUE, value |-> [title |-> "T", author |-> "X"]]
    [] text = "{trends,references}" ->
         [ok |-> TRUE, object |-> TRUE,
          value |-> [trends |-> "Dark covers", references |-> <<"Book1">>]]
    [] text = "{trends:'',references:[]}" ->
         [ok |-> TRUE, object |-> TRUE, value |-> [trends |-> "", references |-> <<>>]]
    [] text = "{trends:''}" ->
         [ok |-> TRUE, object |-> TRUE, value |-> [trends |-> ""]]
    [] OTHER -> [ok |-> FALSE, object |-> FALSE, value |-> <<>>]

\* response.text of a generateContent answer; Null is a missing text
BookTexts == {Null, "", "not json", "null", "{}", "{title,subtitle,description}",
              "{title,author}"}

\* response.text || fallback
OrText(text, fallback) == IF text = Null \/ text = "" THEN fallback ELSE text

\* { ...prev, ...data }
Spread(prev, data) ==
  [k \in DOMAIN prev \cup DOMAIN data |-> IF k \in DOMAIN data THEN data[k] ELSE prev[k]]

Placeholder == [title |-> "Untitled", subtitle |-> "", description |-> ""]

\* ------------------------------------------------- the adapter's functions

\* variant: the catch returns an empty object
ParseBookText_EmptyOnError(text) ==
  LET parsed == JSONParse(OrText(text, "{}"))
  IN IF parsed.ok
       THEN [object |-> parsed.object, value |-> parsed.value]
       ELSE [object |-> TRUE, value |-> <<>>]

\* generateBookText once the remote call has answered with `text`
ParseBookText(text) ==
  LET parsed == JSONParse(OrText(text, "{}"))
  IN IF parsed.ok
       THEN [object |-> parsed.object, value |-> parsed.value]
       ELSE [object |-> TRUE, value |-> Placeholder]

\* setMetadata(prev => ({ ...prev, ...textData })): spreading null adds nothing
MergeText(prev, textData) == Spread(prev, textData.value)

TrendsFallback ==
  [trends |-> "Unable to fetch live trends. Using general design principles.",
   references |-> <<>>, sources |-> <<>>]

\* groundingChunks?.map(chunk => chunk.web ? {uri, title} : null).filter(Boolean) || []
RECURSIVE WebSources(_)
WebSources(chunks) ==
  IF chunks = <<>> THEN <<>>
  ELSE IF Head(chunks).web
    THEN <<[uri |-> Head(chunks).uri, title |-> Head(chunks).title]>> \o WebSources(Tail(chunks))
    ELSE WebSources(Tail(chunks))

\* the answers of the grounded search: response.text and the grounding chunks
\* (an answer without grounding metadata has no chunks)
NoChunks == <<>>
Chunks == <<[web |-> TRUE, uri |-> "http://a", title |-> "Book1"],
            [web |-> FALSE, uri |-> "", title |-> ""]>>
TrendAnswers ==
  {[text |-> Null, chunks |-> NoChunks],
   [text |-> "", chunks |-> Chunks],
   [text |-> "not json", chunks |-> Chunks],
   [text |-> "null", chunks |-> NoChunks],
   [text |-> "{trends,references}", chunks |-> Chunks],
   [text |-> "{trends:''}", chunks |-> NoChunks]}

\* the regular answers
SomeTrendAnswers == {[text |-> "{trends,references}", chunks |-> Chunks]}
SomeBookTexts == {"{title,subtitle,description}"}

\* variant: data.trends is returned as it is
TrendsOf_NoDefault(text, chunks) ==
  LET parsed == JSONParse(OrText(text, "{trends:'',references:[]}"))
      data == parsed.value
  IN IF ~parsed.ok \/ ~parsed.object
       THEN TrendsFallback
       ELSE [trends |-> IF "trends" \in DOMAIN data THEN data.trends ELSE "",
             references |-> IF "references" \in DOMAIN data
                              THEN data.references ELSE <<>>,
             sources |-> WebSources(chunks)]

\* the body of researchTrends' try block, for an answer that arrived
TrendsOf(text, chunks) ==
  LET parsed == JSONParse(OrText(text, "{trends:'',references:[]}"))
      data == parsed.value
  IN IF ~parsed.ok \/ ~parsed.object
       THEN TrendsFallback   \* SyntaxError, or TypeError on null.trends: the catch
       ELSE [trends |-> IF "trends" \in DOMAIN data /\ data.trends # ""
                          THEN data.trends ELSE "Analysis complete.",
             references |-> IF "references" \in DOMAIN data
                              THEN data.references ELSE <<>>,
             sources |-> WebSources(chunks)]

\* ------------------------------------------------------------------ state

VARIABLES
  \* useState of App
  step, isLoading, statusMessage, metadata, groundingData, generatedImages,
  coverImage, videoUrl, editPrompt,
  \* window.aistudio: the host surface and whether a key is selected
  aistudio, keySelected,
  \* the adapter call that startProcess awaits ("idle": it is not in flight),
  \* and whether handleEditImage awaits editCoverImage
  pc, editing,
  \* generateCoverImages: its own await, and the three generateSingleImage calls
  cover, img,
  \* generateVeoVideo
  vid,
  \* handleDownloadFull: the html2canvas captures in flight
  exports,
  \* history: the task that ran last
  ev

vars == <<step, isLoading, statusMessage, metadata, groundingData, generatedImages,
          coverImage, videoUrl, editPrompt, aistudio, keySelected, pc, editing,
          cover, img, vid, exports, ev>>

ui == <<step, isLoading, statusMessage, metadata, groundingData, generatedImages,
        coverImage, videoUrl, editPrompt>>
host == <<aistudio, keySelected>>
adapter == <<pc, editing, cover, img, vid>>

\* window.aistudio: absent, or present with its two functions
Hosts == {[present |-> FALSE, hasSelectedApiKey |-> FALSE, openSelectKey |-> FALSE],
          [present |-> TRUE, hasSelectedApiKey |-> TRUE, openSelectKey |-> TRUE]}

\* the task that ran last: its operation, its outcome, the orchestrator
\* operation it completed ("": none), the alert it raised ("": none)
Ev(op, out) == [op |-> op, out |-> out, done |-> "", alert |-> "", ret |-> <<>>]
Completes(e, done, alert) == [e EXCEPT !.done = done, !.alert = alert]
\* ... and the value the adapter call returned, where a claim is about it
Returns(e, value) == [e EXCEPT !.ret = value]

\* a call of generateSingleImage or of generateVeoVideo; ai is the client
\* handle of its current attempt: "none", or "fresh" until a key selection
\* completes, "stale" after that
IdleImage == [pc |-> "idle", retry |-> TRUE, attempts |-> 0, forced |-> 0,
              first |-> "none", data |-> Null, ai |-> "none"]
IdleVideo == [pc |-> "idle", retry |-> TRUE, attempts |-> 0, forced |-> 0,
              first |-> "none", polls |-> 0, ai |-> "none", image |-> Null]

\* const ai = getAI()
GetAI(call) == [call EXCEPT !.ai = "fresh"]
\* openSelectKey() has resolved: the handles made before it are stale
Staled(call) == IF call.ai = "fresh" THEN [call EXCEPT !.ai = "stale"] ELSE call
\* the call has settled, and its handle is gone
Dropped(call) == [call EXCEPT !.ai = "none"]

Init ==
  /\ step = "DETAILS"
  /\ isLoading = FALSE
  /\ statusMessage = ""
  /\ metadata = [amazonMarketplace |-> MARKETPLACES[1], category |-> CATEGORIES[1],
                 targetMarket |-> "", topic |-> "", author |-> "",
                 title |-> "", subtitle |-> "", description |-> ""]
  /\ groundingData = <<>>
  /\ generatedImages = <<>>
  /\ coverImage = Null
  /\ videoUrl = Null
  /\ editPrompt = ""
  /\ aistudio \in Hosts
  /\ keySelected \in (IF aistudio.present THEN BOOLEAN ELSE {FALSE})
  /\ pc = "idle"
  /\ editing = FALSE
  /\ cover = "idle"
  /\ img = [i \in Requests |-> IdleImage]
  /\ vid = IdleVideo
  /\ exports = 0
  /\ ev = Ev("init", "")

Bump(n) == IF n < MaxCount THEN n + 1 ELSE n

\* ------------------------------------------------------------ ensureApiKey

\* ensureApiKey(force) up to its first await: the await it stops at, or "go"
\* when it returns without one
EnsureStart(force) ==
  IF ~aistudio.present THEN "go"
  ELSE IF aistudio.hasSelectedApiKey THEN "hasKey"
  ELSE IF aistudio.openSelectKey THEN "openKey"   \* hasKey = false
  ELSE "go"

\* variant: the dialog is opened only when no key is selected
EnsureAfterHas_IgnoresForce(force, hasKey) ==
  IF ~hasKey /\ aistudio.openSelectKey THEN "openKey" ELSE "go"

\* ensureApiKey(force) after hasSelectedApiKey() answered hasKey
EnsureAfterHas(force, hasKey) ==
  IF (force \/ ~hasKey) /\ aistudio.openSelectKey THEN "openKey" ELSE "go"

\* ----------------------------------------------------------- typed input

\* the fields of the panel on screen
DetailsFields == {"amazonMarketplace", "category", "targetMarket", "author", "topic"}
RefineFields == {"title", "subtitle"}

handleInputChange(field, value) ==
  /\ \/ step = "DETAILS" /\ field \in DetailsFields
     \/ step \in {"GENERATION", "VIDEO"} /\ field \in RefineFields
  /\ value # metadata[field]
  /\ metadata' = [metadata EXCEPT ![field] = value]
  /\ ev' = Ev("handleInputChange", field)
  /\ UNCHANGED <<step, isLoading, statusMessage, groundingData, generatedImages,
                 coverImage, videoUrl, editPrompt, host, exports, adapter>>

setEditPrompt(value) ==
  /\ step \in {"GENERATION", "VIDEO"}
  /\ value \in Typed
  /\ value # editPrompt
  /\ editPrompt' = value
  /\ ev' = Ev("setEditPrompt", "")
  /\ UNCHANGED <<step, isLoading, statusMessage, metadata, groundingData,
                 generatedImages, coverImage, videoUrl, host, exports, adapter>>

\* ------------------------------------------------------------ startProcess

\* variant: the author is not looked at
CanStart_TopicOnly(md) == md.topic # ""

\* if (!metadata.topic || !metadata.author) { alert(...); return; }
CanStart(md) == md.topic # "" /\ md.author # ""

\* the generate button: rendered in the Details panel, disabled={isLoading}
GenerateEnabled == step = "DETAILS" /\ ~isLoading

\* variant: the loading flag is not cleared
Finally_KeepsLoading ==
  /\ statusMessage' = ""
  /\ UNCHANGED isLoading

\* finally { setIsLoading(false); setStatusMessage(''); }
Finally ==
  /\ isLoading' = FALSE
  /\ statusMessage' = ""

\* variant: the catch drops the images of the run before
StartFailed_ClearsImages(e) ==
  /\ ev' = Completes(e, "startProcess failed", "errorKey")
  /\ pc' = "idle"
  /\ isLoading' = FALSE
  /\ statusMessage' = ""
  /\ generatedImages' = <<>>
  /\ coverImage' = Null
  /\ UNCHANGED step

\* catch (error) { console.error(error); alert(t.errorKey); } finally {...}
StartFailed(e) ==
  /\ ev' = Completes(e, "startProcess failed", "errorKey")
  /\ pc' = "idle"
  /\ Finally
  /\ UNCHANGED <<step, generatedImages, coverImage>>

\* variant: the second image is selected
DefaultCover_Second(images) == images[2]

\* setCoverImage(images[0])
DefaultCover(images) == images[1]

\* setGeneratedImages(images); setCoverImage(images[0]); setStep(GENERATION)
StartSucceeded(e, images) ==
  /\ ev' = Completes(e, "startProcess succeeded", "")
  /\ generatedImages' = images
  /\ coverImage' = DefaultCover(images)
  /\ step' = "GENERATION"
  /\ pc' = "idle"
  /\ Finally

\* a generateSingleImage(prompt, true) call that has just sent its request
FirstRequest == GetAI([IdleImage EXCEPT !.pc = "request", !.attempts = 1])

\* the three calls of [1, 2, 3].map(() => generateSingleImage(prompt, true))
IssueImages ==
  /\ cover' = "all"
  /\ img' = [i \in Requests |-> FirstRequest]

startProcess ==
  /\ GenerateEnabled
  /\ IF ~CanStart(metadata)
       THEN /\ ev' = Completes(Ev("startProcess", "invalid"), "",
                                 "Please enter a topic and author name.")
            /\ UNCHANGED <<ui, host, exports, adapter>>
       ELSE /\ step' = "RESEARCH"
            /\ isLoading' = TRUE
            /\ statusMessage' = "analyzing"
            /\ pc' = "researchTrends"
            /\ ev' = Ev("startProcess", "started")
            /\ UNCHANGED <<metadata, groundingData, generatedImages, coverImage,
                           videoUrl, editPrompt, host, exports, editing, cover, img, vid>>

\* the grounded search answers or fails; researchTrends returns in both cases,
\* and startProcess goes on to generateBookText
researchTrendsReturns(answers) ==
  /\ pc = "researchTrends"
  /\ \/ /\ groundingData' = <<TrendsFallback>>
        /\ ev' = Ev("researchTrends", "rejected")
     \/ \E answer \in answers :
          /\ groundingData' = <<TrendsOf(answer.text, answer.chunks)>>
          /\ ev' = Ev("researchTrends", answer.text)
  /\ statusMessage' = "crafting"
  /\ pc' = "generateBookText"
  /\ UNCHANGED <<step, isLoading, metadata, generatedImages, coverImage, videoUrl,
                 editPrompt, host, exports, editing, cover, img, vid>>

\* the text generation answers or fails; on an answer startProcess merges the
\* text and calls generateCoverImages, which awaits ensureApiKey()
generateBookTextReturns(texts) ==
  /\ pc = "generateBookText"
  /\ \/ /\ StartFailed(Ev("generateBookText", "rejected"))
        /\ UNCHANGED <<metadata, cover, img>>
     \/ \E text \in texts :
          /\ metadata' = MergeText(metadata, ParseBookText(text))
          /\ ev' = Returns(Ev("generateBookText", text), ParseBookText(text))
          /\ statusMessage' = "painting"
          /\ pc' = "generateCoverImages"
          /\ IF EnsureStart(FALSE) = "go"
               THEN IssueImages
               ELSE cover' = EnsureStart(FALSE) /\ UNCHANGED img
          /\ UNCHANGED <<step, isLoading, generatedImages, coverImage>>
  /\ UNCHANGED <<groundingData, videoUrl, editPrompt, host, exports, editing, vid>>

\* generateCoverImages: hasSelectedApiKey() answered
coverHasKeyReturns ==
  /\ pc = "generateCoverImages" /\ cover = "hasKey"
  /\ IF EnsureAfterHas(FALSE, keySelected) = "go"
       THEN IssueImages
       ELSE cover' = "openKey" /\ UNCHANGED img
  /\ ev' = Ev("ensureApiKey", "")
  /\ UNCHANGED <<ui, host, exports, pc, editing, vid>>

\* generateCoverImages: the key-selection dialog closed, with or without a key
coverOpenKeyReturns ==
  /\ pc = "generateCoverImages" /\ cover = "openKey"
  /\ \E chosen \in BOOLEAN : keySelected' = (keySelected \/ chosen)
  /\ IssueImages
  /\ ev' = Ev("ensureApiKey", "")
  /\ UNCHANGED <<ui, aistudio, exports, pc, editing, vid>>

\* ------------------------------------------------------ generateSingleImage

DataUrl(data) == "data:image/png;base64," \o data

\* variant: the retry flag is not looked at
ShouldRetry_AnyAttempt(retry, error) == IsPermissionDenied(error)

\* if (retry && (error.message?.includes('403') || error.status === 403 || ...))
ShouldRetry(retry, error) == retry /\ IsPermissionDenied(error)

\* how the first attempt of a call ended
Classified(error) == IF IsPermissionDenied(error) THEN "permission" ELSE "other"
FirstOf(call, outcome) == IF call.first = "none" THEN outcome ELSE call.first

\* variant: the retry goes through the handle of the first attempt
Retried_ReusesHandle(call) ==
  [call EXCEPT !.pc = "request", !.retry = FALSE, !.attempts = Bump(call.attempts)]

\* return generateSingleImage(prompt, false): a new handle, and the second
\* request is sent
Retried(call) ==
  GetAI([call EXCEPT !.pc = "request", !.retry = FALSE,
                     !.attempts = Bump(call.attempts)])

\* the catch block of generateSingleImage for `error`
ImageCaught(call, error) ==
  LET c == [call EXCEPT !.first = FirstOf(call, Classified(error))]
  IN IF ShouldRetry(call.retry, error)
       THEN LET forced == [c EXCEPT !.forced = Bump(c.forced)]   \* await ensureApiKey(true)
            IN IF EnsureStart(TRUE) = "go"
                 THEN Retried(forced)
                 ELSE [forced EXCEPT !.pc = EnsureStart(TRUE)]
       ELSE Dropped([c EXCEPT !.pc = "rejected"])

\* what an image request can end with: an image, an answer without inline
\* data (the throw of line 156), or a failure of the remote call
ImageAnswered(i, call) ==
  {Dropped([call EXCEPT !.pc = "fulfilled", !.data = DataUrl(ImageData[i]),
                        !.first = FirstOf(call, "ok")])}
  \cup {ImageCaught(call, e) : e \in RemoteErrors \cup {ErrNoImage}}

\* await Promise.all(promises), seen from startProcess: rejected with the first
\* rejection, fulfilled once all three are
AllRejected(calls) == \E i \in Requests : calls[i].pc = "rejected"
AllFulfilled(calls) == \A i \in Requests : calls[i].pc = "fulfilled"

\* the three calls become `calls`, and startProcess continues if its await
\* settles; the calls of a fulfilled batch are over
SettleAll(e, calls) ==
  IF cover = "all" /\ AllRejected(calls)
    THEN /\ cover' = "idle"
         /\ img' = calls
         /\ StartFailed(e)
         /\ UNCHANGED <<metadata, groundingData, videoUrl, editPrompt>>
  ELSE IF cover = "all" /\ AllFulfilled(calls)
    THEN /\ cover' = "idle"
         /\ img' = [i \in Requests |-> IdleImage]
         /\ StartSucceeded(e, [i \in Requests |-> calls[i].data])
         /\ UNCHANGED <<metadata, groundingData, videoUrl, editPrompt>>
  ELSE /\ img' = calls
       /\ ev' = e
       /\ UNCHANGED <<ui, pc, cover>>

\* the remote answer to the request of call i
imageReturns(i) ==
  /\ img[i].pc = "request"
  /\ \E call \in ImageAnswered(i, img[i]) :
       SettleAll(Ev("generateSingleImage", ""), [img EXCEPT ![i] = call])
  /\ UNCHANGED <<host, exports, editing, vid>>

\* call i, in ensureApiKey(true): hasSelectedApiKey() answered
imageHasKeyReturns(i) ==
  /\ img[i].pc = "hasKey"
  /\ img' = [img EXCEPT ![i] =
               IF EnsureAfterHas(TRUE, keySelected) = "go"
                 THEN Retried(img[i]) ELSE [img[i] EXCEPT !.pc = "openKey"]]
  /\ ev' = Ev("ensureApiKey", "")
  /\ UNCHANGED <<ui, host, exports, pc, editing, cover, vid>>

\* call i, in ensureApiKey(true): the dialog closed; the retry is sent
imageOpenKeyReturns(i) ==
  /\ img[i].pc = "openKey"
  /\ \E chosen \in BOOLEAN : keySelected' = (keySelected \/ chosen)
  /\ img' = [j \in Requests |->
               IF j = i THEN Retried(Staled(img[j])) ELSE Staled(img[j])]
  /\ ev' = Ev("ensureApiKey", "")
  /\ UNCHANGED <<ui, aistudio, exports, pc, editing, cover, vid>>

\* ---------------------------------------------------------- handleEditImage

\* variant: the two buttons are never disabled
RefineEnabled_NeverDisabled == step \in {"GENERATION", "VIDEO"}

\* the edit and the video buttons: rendered in the Generation/Video panel,
\* disabled={isLoading}
RefineEnabled == step \in {"GENERATION", "VIDEO"} /\ ~isLoading

\* inlineData.data of an edited image
EditData == {"E"}

handleEditImage ==
  /\ RefineEnabled
  /\ IF coverImage = Null \/ editPrompt = ""
       THEN /\ ev' = Ev("handleEditImage", "return")
            /\ UNCHANGED <<ui, host, exports, adapter>>
       ELSE /\ isLoading' = TRUE
            /\ statusMessage' = "applyingEdits"
            /\ editing' = TRUE
            /\ ev' = Ev("handleEditImage", "started")
            /\ UNCHANGED <<step, metadata, groundingData, generatedImages, coverImage,
                           videoUrl, editPrompt, host, exports, pc, cover, img, vid>>

ErrNoEdited == [message |-> <<"No", "edited", "image", "returned">>, status |-> 0]

\* variant: a denied edit request is sent again
EditCaught_RetriesDenied(error) ==
  IF IsPermissionDenied(error) THEN "request" ELSE "rejected"

\* the catch block of editCoverImage: console.error(...); throw error
EditCaught(error) == "rejected"

\* setCoverImage(newImage); setEditPrompt('')
EditSucceeded(newImage) ==
  /\ coverImage' = newImage
  /\ editPrompt' = ""
  /\ ev' = Completes(Ev("editCoverImage", "fulfilled"), "handleEditImage succeeded", "")

\* variant: the catch clears the instruction
EditFailed_ClearsPrompt(error) ==
  /\ ev' = Completes(Ev("editCoverImage", Classified(error)), "handleEditImage failed",
                     "errorEdit")
  /\ editPrompt' = ""
  /\ UNCHANGED coverImage

\* catch (e) { alert(t.errorEdit); }
EditFailed(error) ==
  /\ ev' = Completes(Ev("editCoverImage", Classified(error)), "handleEditImage failed",
                     "errorEdit")
  /\ UNCHANGED <<coverImage, editPrompt>>

\* the edit request answers: an image, an answer without inline data, a failure
editCoverImageReturns ==
  /\ editing
  /\ \/ \E d \in EditData :
          /\ EditSucceeded(DataUrl(d))
          /\ editing' = FALSE
          /\ Finally
     \/ \E error \in RemoteErrors \cup {ErrNoEdited} :
          IF EditCaught(error) = "rejected"
            THEN /\ EditFailed(error)
                 /\ editing' = FALSE
                 /\ Finally
            ELSE /\ ev' = Ev("editCoverImage", "request")
                 /\ UNCHANGED <<isLoading, statusMessage, coverImage, editPrompt, editing>>
  /\ UNCHANGED <<step, metadata, groundingData, generatedImages, videoUrl, host, exports,
                 pc, cover, img, vid>>

\* --------------------------------------------------------- other user events

\* onClick={() => setCoverImage(img)}: the thumbnails are rendered when
\* generatedImages.length > 0 && !isLoading
selectThumbnail(idx) ==
  /\ Len(generatedImages) > 0 /\ ~isLoading
  /\ idx \in 1..Len(generatedImages)
  /\ coverImage' = generatedImages[idx]
  /\ ev' = Ev("selectThumbnail", "")
  /\ UNCHANGED <<step, isLoading, statusMessage, metadata, groundingData,
                 generatedImages, videoUrl, editPrompt, host, exports, adapter>>

\* variant: the reset drops the images
startOver_DropsImages ==
  /\ step \in {"GENERATION", "VIDEO"}
  /\ step' = "DETAILS"
  /\ generatedImages' = <<>>
  /\ coverImage' = Null
  /\ ev' = Ev("startOver", "")
  /\ UNCHANGED <<isLoading, statusMessage, metadata, groundingData, videoUrl,
                 editPrompt, host, exports, adapter>>

\* onClick={() => setStep(AppStep.DETAILS)}: rendered in the Generation/Video
\* panel, never disabled
startOver ==
  /\ step \in {"GENERATION", "VIDEO"}
  /\ step' = "DETAILS"
  /\ ev' = Ev("startOver", "")
  /\ UNCHANGED <<isLoading, statusMessage, metadata, groundingData, generatedImages,
                 coverImage, videoUrl, editPrompt, host, exports, adapter>>

\* -------------------------------------------------------- handleDownloadFull

\* the download button: {coverImage && !isLoading && step !== AppStep.VIDEO};
\* the preview (coverCanvasRef) is rendered whenever the button is
DownloadEnabled == coverImage # Null /\ ~isLoading /\ step # "VIDEO"

\* handleDownloadFull up to await html2canvas(...); no state is set
handleDownloadFull ==
  /\ DownloadEnabled
  /\ exports < MaxExports
  /\ exports' = exports + 1
  /\ ev' = Ev("handleDownloadFull", "started")
  /\ UNCHANGED <<ui, host, adapter>>

\* html2canvas answers with the canvas, and the link is clicked; or it fails,
\* and the catch alerts
html2canvasReturns ==
  /\ exports > 0
  /\ exports' = exports - 1
  /\ \/ ev' = Completes(Ev("html2canvas", "fulfilled"), "handleDownloadFull succeeded", "")
     \/ ev' = Completes(Ev("html2canvas", "rejected"), "handleDownloadFull failed",
                        "Could not generate the final image. Please try again.")
  /\ UNCHANGED <<ui, host, adapter>>

\* --------------------------------------------------------- handleCreateVideo

\* generate(retry): a new handle, and the generateVideos request is sent
Submitted(call) ==
  GetAI([call EXCEPT !.pc = "submit", !.attempts = Bump(call.attempts), !.polls = 0])

\* the catch block of generate for `error`; "rejected" leaves generateVeoVideo
VideoCaught(call, error) ==
  LET c == [call EXCEPT !.first = FirstOf(call, Classified(error))]
  IN IF ShouldRetry(call.retry, error)
       THEN LET forced == [c EXCEPT !.forced = Bump(c.forced), !.retry = FALSE]
            IN IF EnsureStart(TRUE) = "go"
                 THEN Submitted(forced)
                 ELSE [forced EXCEPT !.pc = EnsureStart(TRUE)]
       ELSE [c EXCEPT !.pc = "rejected"]

\* variant: the loop gives up after MaxPolls status checks
Operated_GivesUp(call, done, hasUri) ==
  IF ~done /\ call.polls >= MaxPolls THEN VideoCaught(call, ErrNoUri)
  ELSE IF ~done THEN [call EXCEPT !.pc = "wait"]
  ELSE IF ~hasUri THEN VideoCaught(call, ErrNoUri)
  ELSE [call EXCEPT !.pc = "fetch"]

\* while (!operation.done) {...}; then the uri check and the fetch
Operated(call, done, hasUri) ==
  IF ~done THEN [call EXCEPT !.pc = "wait"]
  ELSE IF ~hasUri THEN VideoCaught(call, ErrNoUri)
  ELSE [call EXCEPT !.pc = "fetch"]

\* what generateVideos or getVideosOperation answers with: an operation that
\* is not done, one that is done, with or without the uri of a video, or a
\* failure
OperationAnswers ==
  {[kind |-> "pending", done |-> FALSE, hasUri |-> FALSE, error |-> Err500],
   [kind |-> "done", done |-> TRUE, hasUri |-> TRUE, error |-> Err500],
   [kind |-> "done", done |-> TRUE, hasUri |-> FALSE, error |-> Err500]}
  \cup {[kind |-> "failed", done |-> FALSE, hasUri |-> FALSE, error |-> e] :
          e \in RemoteErrors}
DoneAnswers == {answer \in OperationAnswers : answer.kind = "done"}

\* generate after generateVideos or getVideosOperation has answered
OperationAnswered(call, answer) ==
  IF answer.kind = "failed"
    THEN VideoCaught(call, answer.error)
    ELSE Operated(call, answer.done, answer.hasUri)

\* fetch answers ok, 403, another status, or fails
FetchAnswered(call) ==
  {[call EXCEPT !.pc = "blob"],
   VideoCaught(call, ErrPermissionDenied),
   VideoCaught(call, ErrFetch),
   VideoCaught(call, Err500)}

\* videoResponse.blob() answers or fails
BlobAnswered(call) ==
  {[call EXCEPT !.pc = "fulfilled", !.first = FirstOf(call, "ok")],
   VideoCaught(call, Err500)}

\* URL.createObjectURL(videoBlob): videos are opaque, and told apart by the
\* image they were generated from
BlobUrl(image) == "blob:" \o image

\* generateVeoVideo(coverImage, videoPrompt)
VideoCall(image) == [IdleVideo EXCEPT !.image = image]

\* what a settled generateVeoVideo call leaves on record
Settled(call) == [pc |-> call.pc, attempts |-> call.attempts,
                  forced |-> call.forced, first |-> call.first]

\* variant: the catch advances the stage and drops the video
SettleVideo_AdvancesOnFailure(e, call) ==
  IF call.pc = "fulfilled"
    THEN /\ videoUrl' = BlobUrl(call.image)
         /\ step' = "VIDEO"
         /\ vid' = IdleVideo
         /\ ev' = Returns(Completes(e, "handleCreateVideo succeeded", ""), Settled(call))
         /\ Finally
  ELSE IF call.pc = "rejected"
    THEN /\ vid' = IdleVideo
         /\ ev' = Returns(Completes(e, "handleCreateVideo failed", "errorVideo"),
                          Settled(call))
         /\ Finally
         /\ step' = "VIDEO"
         /\ videoUrl' = Null
  ELSE /\ vid' = call
       /\ ev' = e
       /\ UNCHANGED <<step, videoUrl, isLoading, statusMessage>>

\* handleCreateVideo continues when generateVeoVideo has settled
SettleVideo(e, call) ==
  IF call.pc = "fulfilled"
    THEN /\ videoUrl' = BlobUrl(call.image)
         /\ step' = "VIDEO"
         /\ vid' = IdleVideo
         /\ ev' = Returns(Completes(e, "handleCreateVideo succeeded", ""), Settled(call))
         /\ Finally
  ELSE IF call.pc = "rejected"
    THEN /\ vid' = IdleVideo
         /\ ev' = Returns(Completes(e, "handleCreateVideo failed", "errorVideo"),
                          Settled(call))
         /\ Finally
         /\ UNCHANGED <<step, videoUrl>>
  ELSE /\ vid' = call
       /\ ev' = e
       /\ UNCHANGED <<step, videoUrl, isLoading, statusMessage>>

handleCreateVideo ==
  /\ RefineEnabled
  /\ IF coverImage = Null
       THEN /\ ev' = Ev("handleCreateVideo", "return")
            /\ UNCHANGED <<ui, host, exports, adapter>>
       ELSE /\ isLoading' = TRUE
            /\ statusMessage' = "generatingVideo"
            /\ vid' = IF EnsureStart(FALSE) = "go"
                        THEN Submitted(VideoCall(coverImage))
                        ELSE [VideoCall(coverImage) EXCEPT
                                !.pc = EnsureStart(FALSE) \o "0"]
            /\ ev' = Ev("handleCreateVideo", "started")
            /\ UNCHANGED <<step, metadata, groundingData, generatedImages, coverImage,
                           videoUrl, editPrompt, host, exports, pc, editing, cover, img>>

\* generateVeoVideo's first ensureApiKey(): hasSelectedApiKey() answered
videoHasKey0Returns ==
  /\ vid.pc = "hasKey0"
  /\ vid' = IF EnsureAfterHas(FALSE, keySelected) = "go"
              THEN Submitted(vid) ELSE [vid EXCEPT !.pc = "openKey0"]
  /\ ev' = Ev("ensureApiKey", "")
  /\ UNCHANGED <<ui, host, exports, pc, editing, cover, img>>

\* generateVeoVideo's first ensureApiKey(): the dialog closed
videoOpenKey0Returns ==
  /\ vid.pc = "openKey0"
  /\ \E chosen \in BOOLEAN : keySelected' = (keySelected \/ chosen)
  /\ vid' = Submitted(Staled(vid))
  /\ ev' = Ev("ensureApiKey", "")
  /\ UNCHANGED <<ui, aistudio, exports, pc, editing, cover, img>>

\* generateVideos answers
videoSubmitReturns ==
  /\ vid.pc = "submit"
  /\ \E answer \in OperationAnswers :
       SettleVideo(Ev("generateVeoVideo", answer.kind), OperationAnswered(vid, answer))
  /\ UNCHANGED <<metadata, groundingData, generatedImages, coverImage, editPrompt,
                 host, exports, pc, editing, cover, img>>

\* setTimeout(resolve, 5000) fires and getVideosOperation is sent
videoTimer ==
  /\ vid.pc = "wait"
  /\ vid' = [vid EXCEPT !.pc = "poll",
                        !.polls = IF vid.polls < MaxPolls THEN vid.polls + 1 ELSE vid.polls]
  /\ ev' = Ev("generateVeoVideo", "")
  /\ UNCHANGED <<ui, host, exports, pc, editing, cover, img>>

\* getVideosOperation answers, with one of `answers`
videoPollAnswers(answers) ==
  /\ vid.pc = "poll"
  /\ \E answer \in answers :
       SettleVideo(Ev("generateVeoVideo", answer.kind), OperationAnswered(vid, answer))
  /\ UNCHANGED <<metadata, groundingData, generatedImages, coverImage, editPrompt,
                 host, exports, pc, editing, cover, img>>

videoPollReturns == videoPollAnswers(OperationAnswers)

\* fetch(videoUri) answers
videoFetchReturns ==
  /\ vid.pc = "fetch"
  /\ \E call \in FetchAnswered(vid) : SettleVideo(Ev("generateVeoVideo", ""), call)
  /\ UNCHANGED <<metadata, groundingData, generatedImages, coverImage, editPrompt,
                 host, exports, pc, editing, cover, img>>

\* videoResponse.blob() answers
videoBlobReturns ==
  /\ vid.pc = "blob"
  /\ \E call \in BlobAnswered(vid) : SettleVideo(Ev("generateVeoVideo", ""), call)
  /\ UNCHANGED <<metadata, groundingData, generatedImages, coverImage, editPrompt,
                 host, exports, pc, editing, cover, img>>

\* generate(true) in ensureApiKey(true): hasSelectedApiKey() answered
videoHasKeyReturns ==
  /\ vid.pc = "hasKey"
  /\ vid' = IF EnsureAfterHas(TRUE, keySelected) = "go"
              THEN Submitted(vid) ELSE [vid EXCEPT !.pc = "openKey"]
  /\ ev' = Ev("ensureApiKey", "")
  /\ UNCHANGED <<ui, host, exports, pc, editing, cover, img>>

\* generate(true) in ensureApiKey(true): the dialog closed; generate(false)
videoOpenKeyReturns ==
  /\ vid.pc = "openKey"
  /\ \E chosen \in BOOLEAN : keySelected' = (keySelected \/ chosen)
  /\ vid' = Submitted(Staled(vid))
  /\ ev' = Ev("ensureApiKey", "")
  /\ UNCHANGED <<ui, aistudio, exports, pc, editing, cover, img>>

\* ------------------------------------------------------------ specification

UserTypes ==
  \/ \E input \in TypedInputs : handleInputChange(input[1], input[2])
  \/ \E value \in Typed : setEditPrompt(value)

Next ==
  \/ UserTypes
  \/ startProcess
  \/ researchTrendsReturns(SomeTrendAnswers)
  \/ generateBookTextReturns(SomeBookTexts)
  \/ coverHasKeyReturns
  \/ coverOpenKeyReturns
  \/ \E i \in Requests : imageReturns(i)
  \/ \E i \in Requests : imageHasKeyReturns(i)
  \/ \E i \in Requests : imageOpenKeyReturns(i)
  \/ handleEditImage
  \/ editCoverImageReturns
  \/ \E idx \in Requests : selectThumbnail(idx)
  \/ startOver
  \/ handleCreateVideo
  \/ videoHasKey0Returns
  \/ videoOpenKey0Returns
  \/ videoSubmitReturns
  \/ videoTimer
  \/ videoPollReturns
  \/ videoFetchReturns
  \/ videoBlobReturns
  \/ videoHasKeyReturns
  \/ videoOpenKeyReturns
  \/ handleDownloadFull
  \/ html2canvasReturns

\* the whole application, on a host with or without the authorization surface;
\* the research and the text generation fail or give their regular answer
Spec == Init /\ [][Next]_vars

\* the whole application on a host without the authorization surface, with
\* every answer of the research and of the text generation
NextAnswers ==
  \/ UserTypes
  \/ startProcess
  \/ researchTrendsReturns(TrendAnswers)
  \/ generateBookTextReturns(BookTexts)
  \/ \E i \in Requests : imageReturns(i)
  \/ handleEditImage
  \/ editCoverImageReturns
  \/ \E idx \in Requests : selectThumbnail(idx)
  \/ startOver
  \/ handleCreateVideo
  \/ videoSubmitReturns
  \/ videoTimer
  \/ videoPollReturns
  \/ videoFetchReturns
  \/ videoBlobReturns

InitAnswers == Init /\ ~aistudio.present

SpecAnswers == InitAnswers /\ [][NextAnswers]_vars

\* a session on a host without the authorization surface that goes to the
\* video generation: every remote call of generateVeoVideo eventually
\* answers, the timer fires, and a job that is polled again and again
\* eventually reports done
NextVideo ==
  \/ \E input \in {<<"topic", "u">>, <<"author", "u">>} :
       handleInputChange(input[1], input[2])
  \/ startProcess
  \/ researchTrendsReturns(SomeTrendAnswers)
  \/ generateBookTextReturns(SomeBookTexts)
  \/ \E i \in Requests : imageReturns(i)
  \/ startOver
  \/ handleCreateVideo
  \/ videoSubmitReturns
  \/ videoTimer
  \/ videoPollReturns
  \/ videoFetchReturns
  \/ videoBlobReturns

FairVideo ==
  /\ WF_vars(videoSubmitReturns)
  /\ WF_vars(videoTimer)
  /\ WF_vars(videoPollReturns)
  /\ SF_vars(videoPollAnswers(DoneAnswers))
  /\ WF_vars(videoFetchReturns)
  /\ WF_vars(videoBlobReturns)

SpecVideo == InitAnswers /\ [][NextVideo]_vars /\ FairVideo

\* ------------------------------------------------------------- properties

\* an orchestrator operation is in flight
StartInFlight == pc # "idle"
EditInFlight == editing
VideoInFlight == vid.pc # "idle"
\* a request of generateCoverImages, or one of its key-selection calls, is out
ImagesInFlight ==
  \/ cover # "idle"
  \/ \E i \in Requests : img[i].pc \in {"request", "hasKey", "openKey"}
\* a call is inside ensureApiKey(true)
InReauth(call) == call.pc \in {"hasKey", "openKey"}

\* C1: startProcess invoked with an empty topic or an empty author leaves the
\* stage, the loading flag, the metadata, the research data and the images
\* as they are, and issues no remote call and no key-selection call
C1_InvalidStartChangesNothing ==
  [][(ev'.op = "startProcess" /\ (metadata.topic = "" \/ metadata.author = ""))
       => UNCHANGED <<step, isLoading, statusMessage, metadata, groundingData,
                      generatedImages, coverImage, videoUrl, host, exports, adapter>>]_vars

C1_Witness ==
  /\ ev.op = "startProcess" /\ ev.out = "invalid"
  /\ metadata.topic # "" /\ metadata.author = ""
  /\ step = "DETAILS" /\ ~isLoading /\ pc = "idle"

\* the history of one image request or one generateVeoVideo call: a forced
\* re-authorization exactly when the first attempt failed permission-classified,
\* the second attempt after it and only then, no third attempt, and every
\* other failure final
RetryBudget(call) ==
  /\ call.forced = (IF call.first = "permission" THEN 1 ELSE 0)
  /\ call.attempts = (CASE call.pc \in {"idle", "hasKey0", "openKey0"} -> 0
                        [] call.first = "permission" /\ ~InReauth(call) -> 2
                        [] OTHER -> 1)
  /\ InReauth(call) => call.first = "permission"
  /\ call.first = "other" => call.pc = "rejected"
  /\ call.first = "ok" => call.pc = "fulfilled"
  /\ call.pc = "rejected" => call.first \in {"permission", "other"}

\* C2: one image request, and one generateVeoVideo call, makes a second
\* attempt if and only if its first attempt failed permission-classified, with
\* exactly one ensureApiKey(true) before it; there is no third attempt, and a
\* first failure of another kind is final, with no retry and no
\* re-authorization
C2_OneRetryAfterPermissionDenied ==
  /\ \A i \in Requests : RetryBudget(img[i])
  /\ RetryBudget(vid)
  /\ ev.done \in {"handleCreateVideo succeeded", "handleCreateVideo failed"}
       => RetryBudget(ev.ret)

C2_Witness ==
  \E i \in Requests :
    /\ img[i].pc = "rejected" /\ img[i].first = "permission"
    /\ img[i].attempts = 2 /\ img[i].forced = 1

\* the forced re-selections of the generateCoverImages call in flight
ForcedOfBatch == img[1].forced + img[2].forced + img[3].forced

\* C3: one generateCoverImages call forces at most one key re-selection,
\* however many of its three requests are denied, and its forced
\* re-selections never overlap
C3_OneForcedReselectionPerBatch ==
  /\ ForcedOfBatch <= 1
  /\ Cardinality({i \in Requests : InReauth(img[i])}) <= 1

\* C4: a failure of generateBookText's remote call is swallowed: startProcess
\* goes on to the image generation and is not aborted
C4_TextFailureSwallowed ==
  (ev.op = "generateBookText" /\ ev.out = "rejected")
    => (pc = "generateCoverImages" /\ ev.done = "" /\ ev.alert = "")

\* the answer of a remote call could not be parsed, or could not be read as
\* an object
Unparsable(text, fallback) ==
  \/ ~JSONParse(OrText(text, fallback)).ok
  \/ ~JSONParse(OrText(text, fallback)).object

\* C5: researchTrends always returns to startProcess, which goes on; when its
\* remote call failed or its answer could not be parsed the value has non-empty
\* trends, no references and no sources; and the trends of every value it
\* returns are non-empty
C5_ResearchAlwaysReturns ==
  /\ ev.op = "researchTrends"
       => /\ pc = "generateBookText" /\ ev.done = "" /\ ev.alert = ""
          /\ Len(groundingData) = 1
  /\ (ev.op = "researchTrends"
        /\ (ev.out = "rejected" \/ Unparsable(ev.out, "{trends:'',references:[]}")))
       => /\ groundingData[1].trends # ""
          /\ groundingData[1].references = <<>>
          /\ groundingData[1].sources = <<>>
  /\ \A k \in 1..Len(groundingData) : groundingData[k].trends # ""

C5_Witness ==
  /\ ev.op = "researchTrends" /\ ev.out = "not json"
  /\ groundingData = <<TrendsFallback>>

\* generateBookText returned the placeholder
ReturnedPlaceholder == ev.ret = [object |-> TRUE, value |-> Placeholder]
\* the remote text generation answered
TextAnswered == ev.op = "generateBookText" /\ ev.out # "rejected"

C7_OneOperationInFlight ==
  /\ ~(StartInFlight /\ EditInFlight)
  /\ ~(StartInFlight /\ VideoInFlight)
  /\ ~(EditInFlight /\ VideoInFlight)
  /\ (EditInFlight \/ VideoInFlight) => ~ImagesInFlight

C7_Witness ==
  /\ EditInFlight /\ step = "DETAILS" /\ CanStart(metadata)
  /\ Len(generatedImages) = 3

\* C8: after a successful startProcess the stage is Generation, there are
\* exactly three images, and the selected cover is the first of them
C8_SuccessStoresThreeImages ==
  ev.done = "startProcess succeeded"
    => /\ step = "GENERATION"
       /\ Len(generatedImages) = 3
       /\ coverImage = generatedImages[1]
       /\ \A i \in Requests : generatedImages[i] = DataUrl(ImageData[i])

C8_Witness ==
  /\ ev.done = "startProcess succeeded"
  /\ coverImage = DataUrl(ImageData[1])

\* C9: generateCoverImages is all-or-nothing: as soon as one of its requests
\* has failed for good the call has failed and startProcess with it; a run
\* that fails leaves generatedImages and the selected cover as they were
\* before it and does not reach Generation; a run that succeeds stores three
\* images
C9_AllOrNothing ==
  /\ []((\E i \in Requests : img[i].pc = "rejected")
          => (cover = "idle" /\ pc = "idle" /\ step = "RESEARCH"))
  /\ [](ev.done = "startProcess failed" => step = "RESEARCH")
  /\ [][(StartInFlight /\ ev'.done # "startProcess succeeded")
          => UNCHANGED <<generatedImages, coverImage>>]_vars
  /\ [](ev.done = "startProcess succeeded" => Len(generatedImages) = 3)

C9_Witness ==
  /\ ev.done = "startProcess failed"
  /\ Len(generatedImages) = 3 /\ coverImage # Null
  /\ \E i \in Requests : img[i].pc = "rejected" /\ img[i].attempts = 2
  /\ \E j \in Requests : img[j].pc = "fulfilled"

\* C10: the loading flag is true exactly while startProcess (past its
\* validation), handleEditImage or handleCreateVideo is in flight, and the
\* status message is empty when none of them is
C10_LoadingWhileInFlight ==
  /\ isLoading <=> (StartInFlight \/ EditInFlight \/ VideoInFlight)
  /\ ~(StartInFlight \/ EditInFlight \/ VideoInFlight) => statusMessage = ""

C10_Witness ==
  /\ ev.done = "handleCreateVideo failed"
  /\ ~isLoading /\ statusMessage = ""
  /\ step = "GENERATION"

\* the stage changes of the linear progression, and the manual reset
StageChanges ==
  {<<"DETAILS", "RESEARCH">>, <<"RESEARCH", "GENERATION">>, <<"GENERATION", "VIDEO">>,
   <<"GENERATION", "DETAILS">>, <<"VIDEO", "DETAILS">>}

\* C11: the stage changes only along Details -> Research -> Generation ->
\* Video and by the reset to Details, also when the reset is used while an
\* operation is in flight
C11_LinearStages ==
  [][step' # step => <<step, step'>> \in StageChanges]_vars

\* an html2canvas capture of the preview is in flight
ExportInFlight == exports > 0

\* C12: while an export is in flight nothing changes the selected cover image
\* or the metadata that the captured preview renders
C12_ExportOwnsPreview ==
  [][ExportInFlight => UNCHANGED <<coverImage, metadata>>]_vars

\* the metadata that the user enters before a run
InputFields == {"author", "topic", "category", "targetMarket", "amazonMarketplace"}

\* C13: no step of a run of startProcess changes the author, the topic, the
\* category, the target market or the marketplace id, whatever the text
\* generation returned, and after a successful run the title is populated
C13_RunKeepsInputs ==
  /\ [][StartInFlight => \A f \in InputFields : metadata'[f] = metadata[f]]_vars
  /\ [](ev.done = "startProcess succeeded" => metadata.title # "")

\* a call is inside ensureApiKey, forced or not
KeyCallInFlight ==
  \/ cover \in {"hasKey", "openKey"}
  \/ \E i \in Requests : InReauth(img[i])
  \/ vid.pc \in {"hasKey0", "openKey0", "hasKey", "openKey"}

\* C14: editCoverImage sends one request per call and never calls
\* ensureApiKey: the answer to its request, whatever it is, completes
\* handleEditImage, and no key-selection call is out while it is in flight
C14_EditIsSingleShot ==
  /\ [](EditInFlight => ~KeyCallInFlight)
  /\ [][EditInFlight => UNCHANGED host]_vars
  /\ [][ev'.op = "editCoverImage"
          => /\ EditInFlight /\ ~EditInFlight'
             /\ ev'.done \in {"handleEditImage succeeded", "handleEditImage failed"}
             /\ UNCHANGED <<pc, cover, img, vid>>]_vars

C14_Witness ==
  /\ ev.op = "editCoverImage" /\ ev.out = "permission"
  /\ ev.done = "handleEditImage failed"
  /\ aistudio.present /\ ~EditInFlight

\* C15: handleEditImage does nothing without a selected image or without an
\* instruction; when the edit succeeds the selected image becomes the edited
\* one and the instruction is cleared; when it fails both stay as they are;
\* the stage, the candidate images and the video are never changed by it
C15_EditFrame ==
  [][/\ (ev'.op = "handleEditImage" /\ (coverImage = Null \/ editPrompt = ""))
          => UNCHANGED <<ui, host, adapter, exports>>
     /\ ev'.done = "handleEditImage succeeded"
          => (coverImage' \in {DataUrl(d) : d \in EditData} /\ editPrompt' = "")
     /\ ev'.done = "handleEditImage failed" => UNCHANGED <<coverImage, editPrompt>>
     /\ ev'.op \in {"handleEditImage", "editCoverImage"}
          => UNCHANGED <<step, generatedImages, videoUrl>>]_vars

C15_Witness ==
  /\ ev.done = "handleEditImage failed"
  /\ editPrompt # "" /\ coverImage = generatedImages[2]
  /\ step = "GENERATION" /\ videoUrl = Null

\* C16: handleCreateVideo does nothing without a selected image; when the
\* video generation succeeds it stores the video and the stage becomes Video;
\* when it fails the stage and the stored video stay as they are
C16_VideoFrame ==
  [][/\ (ev'.op = "handleCreateVideo" /\ coverImage = Null)
          => UNCHANGED <<ui, host, adapter, exports>>
     /\ ev'.op = "handleCreateVideo" => UNCHANGED <<step, videoUrl>>
     /\ ev'.done = "handleCreateVideo succeeded"
          => (videoUrl' = BlobUrl(vid.image) /\ step' = "VIDEO")
     /\ ev'.done = "handleCreateVideo failed" => UNCHANGED <<step, videoUrl>>]_vars

C16_Witness ==
  /\ ev.done = "handleCreateVideo failed"
  /\ step = "VIDEO" /\ videoUrl = BlobUrl(coverImage)

\* C17: the result is fetched only after a status check reported the job
\* done; as long as the answers say the job is pending the call keeps polling,
\* however many polls there were, and the loading flag stays set; when the job
\* eventually reports done and every remote call answers, the call settles and
\* the loading flag is cleared
C17_PollsUntilDone ==
  /\ [][(vid'.pc = "fetch" /\ vid.pc # "fetch")
          => (vid.pc \in {"submit", "poll"} /\ ev'.out = "done")]_vars
  /\ [][(vid.pc \in {"submit", "poll"} /\ ev'.out = "pending")
          => (vid'.pc = "wait" /\ isLoading')]_vars
  /\ [][(vid.pc = "wait" /\ vid' # vid) => (vid'.pc = "poll" /\ isLoading')]_vars
  /\ [][ev'.done = "handleCreateVideo succeeded" => vid.pc = "blob"]_vars
  /\ (VideoInFlight ~> (~VideoInFlight /\ ~isLoading))

C17_Witness ==
  /\ vid.pc = "wait" /\ vid.polls = MaxPolls
  /\ ev.out = "pending" /\ isLoading

\* ensureApiKey() of generateCoverImages and of generateVeoVideo (force is
\* false): called, and after hasSelectedApiKey() answered
UnforcedGuard ==
  /\ (aistudio.present /\ cover = "idle" /\ cover' # "idle") => cover' = "hasKey"
  /\ (aistudio.present /\ vid.pc = "idle" /\ vid'.pc # "idle") => vid'.pc = "hasKey0"
  /\ (cover = "hasKey" /\ cover' # "hasKey")
       => cover' = (IF keySelected THEN "all" ELSE "openKey")
  /\ (vid.pc = "hasKey0" /\ vid'.pc # "hasKey0")
       => vid'.pc = (IF keySelected THEN "submit" ELSE "openKey0")

\* ensureApiKey(true) of a denied image request and of a denied video attempt
ForcedGuard ==
  /\ \A i \in Requests :
       /\ img'[i].forced > img[i].forced
            => img'[i].pc = (IF aistudio.present THEN "hasKey" ELSE "request")
       /\ (img[i].pc = "hasKey" /\ img'[i].pc # "hasKey") => img'[i].pc = "openKey"
  /\ vid'.forced > vid.forced
       => vid'.pc = (IF aistudio.present THEN "hasKey" ELSE "submit")
  /\ (vid.pc = "hasKey" /\ vid'.pc # "hasKey") => vid'.pc = "openKey"

\* the caller of ensureApiKey has not gone on while the call is out
CallerWaits ==
  /\ cover \in {"hasKey", "openKey"} => \A i \in Requests : img[i].pc = "idle"
  /\ vid.pc \in {"hasKey0", "openKey0"} => vid.attempts = 0
  /\ \A i \in Requests : InReauth(img[i]) => img[i].attempts = 1
  /\ InReauth(vid) => vid.attempts = 1

C19_RequestsOnlyWithKey ==
  (aistudio.present /\ ((\E i \in Requests : img[i].pc = "request") \/ vid.pc = "submit"))
    => keySelected

\* C20: every request goes through a handle made after the last completed
\* key selection: an image request and a video request when they are sent,
\* the retry after a forced re-authorization included, and every status poll
\* and the fetch of a video attempt, during which no key selection completes
C20_FreshHandles ==
  /\ [][\A i \in Requests : img'[i].attempts > img[i].attempts
                              => img'[i].ai = "fresh"]_vars
  /\ [][vid'.attempts > vid.attempts => vid'.ai = "fresh"]_vars
  /\ [](vid.pc \in {"submit", "wait", "poll", "fetch", "blob"} => vid.ai = "fresh")

C20_Witness ==
  \E i, j \in Requests :
    /\ img[i].pc = "request" /\ img[i].attempts = 2 /\ img[i].ai = "fresh"
    /\ img[j].pc = "request" /\ img[j].ai = "stale"

\* no orchestrator operation is in flight
Quiet == ~(StartInFlight \/ EditInFlight \/ VideoInFlight)

\* C21: whenever no orchestrator operation is in flight the user can reset
\* the stage to Details or is at Details with the generate button enabled
C21_NoDeadEnd ==
  Quiet => (GenerateEnabled \/ ENABLED startOver)

\* C22: once startProcess has completed, no image request, no retry and no
\* key-selection call of its generateCoverImages call is still out
C22_NothingLingers ==
  ~StartInFlight => ~ImagesInFlight

\* C23: at Generation and at Video there are exactly three candidate images
\* and a cover image is selected, and at Video a video is stored
C23_ArtifactsOfStage ==
  /\ step \in {"GENERATION", "VIDEO"}
       => (Len(generatedImages) = 3 /\ coverImage # Null)
  /\ step = "VIDEO" => videoUrl # Null

C23_Witness ==
  /\ step = "VIDEO" /\ videoUrl # Null
  /\ coverImage \in {DataUrl(d) : d \in EditData}
  /\ Len(generatedImages) = 3
  /\ ev.done = "handleEditImage succeeded"

\* C24: at Video the stored video is the one generated from the selected
\* cover image
C24_VideoOfSelectedCover ==
  step = "VIDEO" => videoUrl = BlobUrl(coverImage)

====
